---- MODULE Spec2Model ----
(***************************************************************************)
(* Model of sid.py: EXIF metadata highlight extraction.                    *)
(*                                                                         *)
(* Representation of Python values:                                        *)
(*   - None and optional results: the empty tuple <<>> is None, <<x>> is   *)
(*     the value x (used for float results);                               *)
(*   - a float is an exact fraction [n |-> numerator, d |-> denominator]   *)
(*     in lowest terms with d > 0 (a float does not remember the pair it   *)
(*     was computed from); a float that went through round(x, 6) is an     *)
(*     integer count of millionths;                                        *)
(*   - text is a tuple of one-character strings, so that upper(),          *)
(*     startswith(), decode() and strip() are computed, not assumed;       *)
(*   - a tag value of the structured tree is a record [t, v]: t is         *)
(*     "bytes", "str", "int" or "none", v the tuple of its characters.     *)
(***************************************************************************)
EXTENDS Integers, Sequences, FiniteSets, TLC

VARIABLES
    pc,        \* control position of the running operation
    r,         \* argument of ratio_to_float
    ratio,     \* its result
    tags,      \* argument of parse_exifread_tags: the exifread tag mapping
    parsed,    \* its result
    file,      \* what the readers return for the file given to extract_one
    result,    \* the record extract_one returns (or the exception it raises)
    args,      \* main: the --json and --csv options
    images,    \* main: args.images with what each path holds
    idx,       \* main: position of the for loop over args.images
    results,   \* main: the results list
    log        \* main: what main reported, in order

vars == <<pc, r, ratio, tags, parsed, file, result, args, images, idx, results,
         log>>

\* Value of a variable an operation does not use.
Unused == <<>>

----------------------------------------------------------------------------
(* Bounds of the input sets. *)

MaxNum == 3
MaxDen == 2
\* GPS components are the integers -MaxDms..MaxDms (and two failing ones).
MaxDms == 1
\* At most MaxTags of the twelve string tags are present in a mapping.
MaxTags == 3
\* main is given 1..MaxImages paths.
MaxImages == 3

----------------------------------------------------------------------------
(* Exact arithmetic standing for Python floats. *)

Abs(x) == IF x < 0 THEN -x ELSE x

RECURSIVE GCDNat(_, _)
GCDNat(a, b) == IF b = 0 THEN a ELSE GCDNat(b, a % b)

GCD(a, b) == GCDNat(Abs(a), Abs(b))

\* The float n / d (d # 0).
Frac(n, d) ==
    LET g == GCD(n, d)
        s == IF d < 0 THEN -1 ELSE 1
    IN  [n |-> s * (n \div g), d |-> s * (d \div g)]

FZero == [n |-> 0, d |-> 1]

\* x + y, over the least common denominator.
FAdd(x, y) ==
    LET l == (x.d * y.d) \div GCD(x.d, y.d)
    IN  Frac(x.n * (l \div x.d) + y.n * (l \div y.d), l)

\* x / k for a positive integer constant k.
FDivInt(x, k) ==
    LET g == GCD(x.n, k)
    IN  Frac(x.n \div g, x.d * (k \div g))

None == <<>>
Some(x) == <<x>>
IsNone(o) == o = <<>>
Val(o) == o[1]

----------------------------------------------------------------------------
(* ratio_to_float *)

\* What ratio_to_float is given: an object with num and den ("ratio"), a
\* 2-tuple ("tuple"), a plain number ("number", its value in num), or a value
\* float() raises on ("junk").
RatioInputs ==
    [kind : {"ratio", "tuple"}, num : -MaxNum..MaxNum, den : -MaxDen..MaxDen]
    \cup [kind : {"number"}, num : -MaxNum..MaxNum, den : {1}]
    \cup [kind : {"junk"}, num : {0}, den : {1}]

ratio_to_float(x) ==
    CASE x.kind = "ratio" ->
            IF x.den # 0 THEN Some(Frac(x.num, x.den)) ELSE Some(FZero)
      [] x.kind = "tuple" ->
            IF x.den # 0 THEN Some(Frac(x.num, x.den)) ELSE Some(FZero)
      [] x.kind = "number" -> Some(Frac(x.num, 1))
      [] OTHER -> None

InitRatio ==
    /\ pc = "start"
    /\ r \in RatioInputs
    /\ ratio = Unused
    /\ tags = Unused /\ parsed = Unused /\ file = Unused /\ result = Unused
    /\ args = Unused /\ images = Unused /\ idx = 0 /\ results = Unused
    /\ log = Unused

RatioToFloat ==
    /\ pc = "start"
    /\ ratio' = ratio_to_float(r)
    /\ pc' = "done"
    /\ UNCHANGED <<r, tags, parsed, file, result, args, images, idx, results,
                 log>>

NextRatio == RatioToFloat

SpecRatio == InitRatio /\ [][NextRatio]_vars

\* C1: ratio_to_float returns n/d for every rational (object or 2-tuple) with
\* d # 0, and None for every rational with d = 0.
C1_RatioOrNone ==
    (pc = "done" /\ r.kind \in {"ratio", "tuple"}) =>
        IF r.den # 0
        THEN /\ ~IsNone(ratio)
             /\ Val(ratio).n * r.den = r.num * Val(ratio).d
        ELSE IsNone(ratio)

----------------------------------------------------------------------------
(* Python values other than floats: [t, v] with v the tuple of characters. *)

PyNone == [t |-> "none", v |-> <<>>]
PyStr(s) == [t |-> "str", v |-> s]
PyBytes(b) == [t |-> "bytes", v |-> b]
PyInt(digits) == [t |-> "int", v |-> digits]

\* Python truth value: None, '', b'' and 0 are false.
Truthy(x) ==
    CASE x.t = "none" -> FALSE
      [] x.t = "int" -> x.v # <<"0">>
      [] OTHER -> x.v # <<>>

\* The Python expression  a or b.
PyOr(a, b) == IF Truthy(a) THEN a ELSE b

UpperChar(c) ==
    CASE c = "s" -> "S"
      [] c = "w" -> "W"
      [] c = "n" -> "N"
      [] c = "e" -> "E"
      [] OTHER -> c

\* str.upper()
upper(s) == [k \in 1..Len(s) |-> UpperChar(s[k])]

\* str.startswith(c) for a one-character prefix
startswith(s, c) == Len(s) > 0 /\ s[1] = c

----------------------------------------------------------------------------
(* dms_to_decimal and round(x, 6) *)

Million == 1000000

\* round(x, 6) as a count of millionths: the nearest, ties to even.
Round6(x) ==
    LET a     == Abs(x.n)
        whole == a \div x.d
        rem   == a % x.d
        g     == GCD(Million, x.d)
        den   == x.d \div g
        t     == rem * (Million \div g)
        q     == t \div den
        rest  == t % den
        up    == \/ 2 * rest > den
                 \/ (2 * rest = den /\ q % 2 = 1)
        m     == whole * Million + q + (IF up THEN 1 ELSE 0)
    IN  IF x.n < 0 THEN -m ELSE m

\* dms is the tag's .values: a sequence of rationals. dms[2] on a shorter
\* sequence raises IndexError, caught by the function's own handler.
dms_to_decimal(dms) ==
    IF Len(dms) < 3 THEN None
    ELSE LET d == ratio_to_float(dms[1])
             m == ratio_to_float(dms[2])
             s == ratio_to_float(dms[3])
         IN  IF IsNone(d) \/ IsNone(m) \/ IsNone(s) THEN None
             ELSE Some(FAdd(FAdd(Val(d), FDivInt(Val(m), 60)),
                            FDivInt(Val(s), 3600)))

----------------------------------------------------------------------------
(* parse_exifread_tags *)

MakeKeys     == <<"Image Make", "Make">>
ModelKeys    == <<"Image Model", "Model">>
DateKeys     == <<"EXIF DateTimeOriginal", "EXIF DateTimeDigitized",
                  "Image DateTime">>
SoftwareKeys == <<"Image Software", "Software">>
ArtistKeys   == <<"Image Artist", "EXIF Artist", "Artist">>

Range(s) == {s[k] : k \in 1..Len(s)}

StringTagNames ==
    Range(MakeKeys) \cup Range(ModelKeys) \cup Range(DateKeys)
    \cup Range(SoftwareKeys) \cup Range(ArtistKeys)

GpsTagNames ==
    {"GPS GPSLatitude", "GPS GPSLongitude",
     "GPS GPSLatitudeRef", "GPS GPSLongitudeRef"}

TagNames == StringTagNames \cup GpsTagNames

\* A tag of the mapping: str is what str(tag) gives, values what tag.values
\* gives; novalues marks an object without a .values attribute. A key that
\* is not in the mapping is Absent.
Tag(s, vals) == [present |-> TRUE, str |-> s, values |-> vals, novalues |-> FALSE]
TagNoValues  == [present |-> TRUE, str |-> <<>>, values |-> <<>>, novalues |-> TRUE]
Absent       == [present |-> FALSE, str |-> <<>>, values |-> <<>>, novalues |-> FALSE]

NoTags == [k \in TagNames |-> Absent]

\* get(k) of parse_exifread_tags
get(tg, k) == IF tg[k].present THEN PyStr(tg[k].str) ELSE PyNone

\* OrChain probing the aliases from the last to the first.
RECURSIVE OrChainReversed(_, _, _)
OrChainReversed(tg, keys, k) ==
    IF k = Len(keys) THEN get(tg, keys[1])
    ELSE PyOr(get(tg, keys[Len(keys) + 1 - k]), OrChainReversed(tg, keys, k + 1))

\* get(k1) or get(k2) or ... over an alias list
RECURSIVE OrChain(_, _, _)
OrChain(tg, keys, k) ==
    IF k = Len(keys) THEN get(tg, keys[k])
    ELSE PyOr(get(tg, keys[k]), OrChain(tg, keys, k + 1))

\* str(tags.get(k, '')).upper()
RefOf(tg, k) == upper(IF tg[k].present THEN tg[k].str ELSE <<>>)

\* Hemisphere with the sign flipped instead of forced negative.
HemisphereFlip(x, ref, letter) ==
    IF ref # <<>> /\ startswith(ref, letter)
    THEN [n |-> -x.n, d |-> x.d]
    ELSE x

\* A coordinate after the hemisphere correction: -abs(x) when the reference
\* starts with the letter, x otherwise.
Hemisphere(x, ref, letter) ==
    IF ref # <<>> /\ startswith(ref, letter)
    THEN [n |-> -Abs(x.n), d |-> x.d]
    ELSE x

\* The GPS block (lines 77-93); None when out gets no 'gps' entry.
ParseGps(tg) ==
    IF ~(tg["GPS GPSLatitude"].present /\ tg["GPS GPSLongitude"].present)
    THEN None
    ELSE IF tg["GPS GPSLatitude"].novalues \/ tg["GPS GPSLongitude"].novalues
    THEN None   \* AttributeError, swallowed at line 92
    ELSE LET lat_vals == tg["GPS GPSLatitude"].values
             lon_vals == tg["GPS GPSLongitude"].values
             lat_ref  == RefOf(tg, "GPS GPSLatitudeRef")
             lon_ref  == RefOf(tg, "GPS GPSLongitudeRef")
             lat      == dms_to_decimal(lat_vals)
             lon      == dms_to_decimal(lon_vals)
         IN  IF IsNone(lat) \/ IsNone(lon) THEN None
             ELSE Some([lat     |-> Round6(Hemisphere(Val(lat), lat_ref, "S")),
                        lon     |-> Round6(Hemisphere(Val(lon), lon_ref, "W")),
                        lat_ref |-> lat_ref,
                        lon_ref |-> lon_ref])

parse_exifread_tags(tg) ==
    [make              |-> OrChain(tg, MakeKeys, 1),
     model             |-> OrChain(tg, ModelKeys, 1),
     datetime_original |-> OrChain(tg, DateKeys, 1),
     software          |-> OrChain(tg, SoftwareKeys, 1),
     artist            |-> OrChain(tg, ArtistKeys, 1),
     gps               |-> ParseGps(tg)]

(* Inputs of parse_exifread_tags. *)

Rat(n, d) == [kind |-> "ratio", num |-> n, den |-> d]
Junk == [kind |-> "junk", num |-> 0, den |-> 1]

\* Components of a GPS value: small integers of either sign, a rational with
\* a zero denominator, and a value float() raises on.
DmsRationals ==
    {Rat(n, 1) : n \in -MaxDms..MaxDms} \cup {Rat(1, 0), Junk}

\* The example of the specification: 40 26' 46.302" N, 79 56' 55.903" W.
SampleLat == <<Rat(40, 1), Rat(26, 1), Rat(46302, 1000)>>
SampleLon == <<Rat(79, 1), Rat(56, 1), Rat(55903, 1000)>>

\* Every triple of components, a sequence too short to index, and an object
\* without .values.
AllCoordTags ==
    {Tag(<<>>, <<a, b, c>>) : a \in DmsRationals, b \in DmsRationals,
                              c \in DmsRationals}
    \cup {Tag(<<>>, <<Rat(1, 1), Rat(1, 1)>>), TagNoValues}

PlainLatTags ==
    {Tag(<<>>, SampleLat), Tag(<<>>, <<Rat(0, 1), Rat(0, 1), Rat(0, 1)>>),
     Tag(<<>>, <<Rat(1, 1), Junk, Rat(1, 1)>>)}

PlainLonTags ==
    {Tag(<<>>, SampleLon), Tag(<<>>, <<Rat(0, 1), Rat(0, 1), Rat(0, 1)>>),
     Tag(<<>>, <<Rat(1, 1), Rat(1, 1), Junk>>)}

\* Reference tags: absent, the four hemisphere letters in either case, and
\* longer strings.
RefTags ==
    {Absent} \cup
    {Tag(s, <<>>) : s \in {<<"N">>, <<"S">>, <<"s">>, <<"W">>, <<"w">>,
                           <<"S", "W">>, <<"W", "E">>}}

\* A one-symbol text naming the tag it is the value of.
AliasText(k) == <<k>>

GpsMappings ==
    {[NoTags EXCEPT !["GPS GPSLatitude"] = c[1],
                    !["GPS GPSLongitude"] = c[2],
                    !["GPS GPSLatitudeRef"] = la,
                    !["GPS GPSLongitudeRef"] = lo,
                    !["Image Make"] = mk] :
        c \in (AllCoordTags \X PlainLonTags) \cup (PlainLatTags \X AllCoordTags)
              \cup ({Absent} \X PlainLonTags) \cup (PlainLatTags \X {Absent}),
        la \in RefTags, lo \in RefTags,
        mk \in {Absent, Tag(AliasText("Image Make"), <<>>)}}

\* Mappings with at most MaxTags string tags (D), some of them with an empty
\* string value (E), with or without the sample coordinates (g).
AliasMapping(D, E, g) ==
    [k \in TagNames |->
        CASE k \in D \ E -> Tag(AliasText(k), <<>>)
          [] k \in E -> Tag(<<>>, <<>>)
          [] k = "GPS GPSLatitude" /\ g -> Tag(<<>>, SampleLat)
          [] k = "GPS GPSLongitude" /\ g -> Tag(<<>>, SampleLon)
          [] OTHER -> Absent]

AliasMappings ==
    UNION {{AliasMapping(D, E, g) : E \in SUBSET D, g \in BOOLEAN} :
           D \in {X \in SUBSET StringTagNames : Cardinality(X) <= MaxTags}}

InitTags ==
    /\ pc = "start"
    /\ tags \in GpsMappings \cup AliasMappings
    /\ parsed = Unused
    /\ r = Unused /\ ratio = Unused /\ file = Unused /\ result = Unused
    /\ args = Unused /\ images = Unused /\ idx = 0 /\ results = Unused
    /\ log = Unused

ParseExifreadTags ==
    /\ pc = "start"
    /\ parsed' = parse_exifread_tags(tags)
    /\ pc' = "done"
    /\ UNCHANGED <<r, ratio, tags, file, result, args, images, idx, results,
                 log>>

NextTags == ParseExifreadTags

SpecTags == InitTags /\ [][NextTags]_vars

----------------------------------------------------------------------------
(* Claims about parse_exifread_tags. *)

HasGps == pc = "done" /\ parsed # Unused /\ ~IsNone(parsed.gps)

\* The DMS value of a coordinate tag rounded to 6 decimals, before the
\* hemisphere correction.
RoundedDms(k) == Round6(Val(dms_to_decimal(tags[k].values)))

Unconvertible(x) ==
    x.kind = "junk" \/ (x.kind \in {"ratio", "tuple"} /\ x.den = 0)

ConvertibleDms(t) ==
    /\ t.present /\ ~t.novalues /\ Len(t.values) >= 3
    /\ \A k \in 1..3 : ~Unconvertible(t.values[k])

WithoutGps(tg) == [k \in TagNames |-> IF k \in GpsTagNames THEN Absent ELSE tg[k]]

\* C3: a gps entry only when both coordinate tags are present and every
\* component converts (a zero denominator does not), and the other five
\* fields are what they are without the GPS tags.
C3_GpsAllOrNothing ==
    pc = "done" =>
        /\ ~IsNone(parsed.gps) =>
               /\ ConvertibleDms(tags["GPS GPSLatitude"])
               /\ ConvertibleDms(tags["GPS GPSLongitude"])
        /\ LET q == parse_exifread_tags(WithoutGps(tags))
           IN  /\ parsed.make = q.make /\ parsed.model = q.model
               /\ parsed.datetime_original = q.datetime_original
               /\ parsed.software = q.software /\ parsed.artist = q.artist

PresentAliases(keys) == {k \in 1..Len(keys) : tags[keys[k]].present}
NonEmptyAliases(keys) == {k \in PresentAliases(keys) : tags[keys[k]].str # <<>>}
First(S) == CHOOSE k \in S : \A j \in S : k <= j

\* The string of the first alias present, absent when none is.
FirstPresent(keys) ==
    IF PresentAliases(keys) = {} THEN PyNone
    ELSE PyStr(tags[keys[First(PresentAliases(keys))]].str)

\* The string of the first alias with a non-empty value; when there is
\* none, the last alias decides: '' when present, absent when not.
FirstNonEmpty(keys) ==
    IF NonEmptyAliases(keys) # {}
    THEN PyStr(tags[keys[First(NonEmptyAliases(keys))]].str)
    ELSE IF tags[keys[Len(keys)]].present THEN PyStr(<<>>) ELSE PyNone

\* C8 as stated: every field is the value of the first alias present.
C8_FirstPresentAlias ==
    pc = "done" =>
        /\ parsed.make = FirstPresent(MakeKeys)
        /\ parsed.model = FirstPresent(ModelKeys)
        /\ parsed.datetime_original = FirstPresent(DateKeys)
        /\ parsed.software = FirstPresent(SoftwareKeys)
        /\ parsed.artist = FirstPresent(ArtistKeys)

\* C8 amended: every field is the value of the first alias whose value is
\* not empty.
C8_FirstNonEmptyAlias ==
    pc = "done" =>
        /\ parsed.make = FirstNonEmpty(MakeKeys)
        /\ parsed.model = FirstNonEmpty(ModelKeys)
        /\ parsed.datetime_original = FirstNonEmpty(DateKeys)
        /\ parsed.software = FirstNonEmpty(SoftwareKeys)
        /\ parsed.artist = FirstNonEmpty(ArtistKeys)

\* DateTimeOriginal is present but empty and the two later aliases both
\* have values: the result is DateTimeDigitized's.
C8_Witness ==
    /\ pc = "done"
    /\ tags["EXIF DateTimeOriginal"] = Tag(<<>>, <<>>)
    /\ tags["EXIF DateTimeDigitized"].present
    /\ tags["Image DateTime"].present
    /\ tags["Image DateTime"].str # <<>>
    /\ parsed.datetime_original = PyStr(AliasText("EXIF DateTimeDigitized"))

----------------------------------------------------------------------------
(* human_size *)

Units == <<"B", "KB", "MB", "GB", "TB">>

\* n / 1024^k to one decimal, as a count of tenths (nearest, ties to even).
Tenths(n, div) ==
    LET q == (10 * n) \div div
        rest == (10 * n) % div
    IN  q + (IF 2 * rest > div \/ (2 * rest = div /\ q % 2 = 1) THEN 1 ELSE 0)

\* The text f"{n:.1f}{unit}" as the pair of its number (in tenths) and unit.
RECURSIVE HumanSizeFrom(_, _, _)
HumanSizeFrom(n, div, k) ==
    IF k > Len(Units) THEN [tenths |-> Tenths(n, div), unit |-> "PB"]
    ELSE IF n < 1024 * div THEN [tenths |-> Tenths(n, div), unit |-> Units[k]]
    ELSE HumanSizeFrom(n, 1024 * div, k + 1)

human_size(n) == HumanSizeFrom(n, 1, 1)

----------------------------------------------------------------------------
(* parse_piexif *)

\* A key that a dict does not hold.
Missing == [t |-> "missing", v |-> <<>>]

\* piexif.TAGS: the names of the tags the program reads, by group and id.
TagIds == {271, 272, 305, 306, 315, 36867}

\* str(tag)
IdText(tag) ==
    CASE tag = 271 -> "271" [] tag = 272 -> "272" [] tag = 305 -> "305"
      [] tag = 306 -> "306" [] tag = 315 -> "315" [] OTHER -> "36867"

PiexifName(ifd, tag) ==
    CASE ifd = "0th" /\ tag = 271 -> "Make"
      [] ifd = "0th" /\ tag = 272 -> "Model"
      [] ifd = "0th" /\ tag = 305 -> "Software"
      [] ifd = "0th" /\ tag = 306 -> "DateTime"
      [] ifd = "0th" /\ tag = 315 -> "Artist"
      [] ifd = "Exif" /\ tag = 36867 -> "DateTimeOriginal"
      [] OTHER -> IdText(tag)

TagNamesOut ==
    {"Make", "Model", "Software", "DateTime", "Artist", "DateTimeOriginal"}
    \cup {IdText(i) : i \in TagIds}

GroupNames == {"0th", "Exif", "thumbnail"}

\* bytes.decode('utf-8', errors='replace'): an invalid byte becomes U+FFFD.
DecodeByte(b) == IF b = "xFF" THEN "uFFFD" ELSE b
decode(b) == [k \in 1..Len(b) |-> DecodeByte(b[k])]

\* str.strip('\x00'): NULs are removed from both ends.
RECURSIVE StripLeft(_)
StripLeft(s) ==
    IF s # <<>> /\ s[1] = "NUL" THEN StripLeft(Tail(s)) ELSE s

RECURSIVE StripRight(_)
StripRight(s) ==
    IF s # <<>> /\ s[Len(s)] = "NUL"
    THEN StripRight(SubSeq(s, 1, Len(s) - 1)) ELSE s

strip_nul(s) == StripRight(StripLeft(s))

\* The value clean() stores for a tag value.
CleanValue(val) ==
    IF val.t = "bytes" THEN PyStr(strip_nul(decode(val.v))) ELSE val

\* A group of the loaded tree: a dict of tag id -> value, or a value that is
\* not a dict (None or bytes), or no such key in the tree.
DictGroup(items) == [kind |-> "dict", items |-> items]
NoGroup == [kind |-> "absent", items |-> [i \in TagIds |-> Missing]]
NoneGroup == [kind |-> "none", items |-> [i \in TagIds |-> Missing]]
BytesGroup == [kind |-> "bytes", items |-> [i \in TagIds |-> Missing]]

\* clean(ifd) for a dict group: tag name -> cleaned value.
clean(ex, ifd) ==
    [name \in TagNamesOut |->
        IF \E i \in TagIds : ex[ifd].items[i] # Missing /\ PiexifName(ifd, i) = name
        THEN CleanValue(ex[ifd].items[
                 CHOOSE i \in TagIds :
                     ex[ifd].items[i] # Missing /\ PiexifName(ifd, i) = name])
        ELSE Missing]

EmptyDict == [name \in TagNamesOut |-> Missing]

\* The dict parse_piexif returns: group -> dict, absent for a group that is
\* no key of it.
EmptyTree == [g \in GroupNames |-> [present |-> FALSE, items |-> EmptyDict]]

\* load is what piexif.load did: raised, or returned the tree ex. A group
\* whose value has no .items() makes clean raise AttributeError, outside the
\* function's try.
parse_piexif(load) ==
    IF load.raised THEN [raised |-> FALSE, tree |-> EmptyTree]
    ELSE IF \E g \in GroupNames : load.ex[g].kind \in {"none", "bytes"}
    THEN [raised |-> TRUE, tree |-> EmptyTree]
    ELSE [raised |-> FALSE,
          tree |-> [g \in GroupNames |->
                      IF load.ex[g].kind = "dict"
                      THEN [present |-> TRUE, items |-> clean(load.ex, g)]
                      ELSE [present |-> FALSE, items |-> EmptyDict]]]

----------------------------------------------------------------------------
(* extract_one *)

\* dict.get(group, {}).get(name): None when either key is missing.
TreeGet(tree, g, name) ==
    IF tree[g].present /\ tree[g].items[name] # Missing
    THEN tree[g].items[name] ELSE PyNone

NoParsed ==
    [make |-> PyNone, model |-> PyNone, datetime_original |-> PyNone,
     software |-> PyNone, artist |-> PyNone, gps |-> None]

NoteGps      == "No GPS data found (or stripped by app)."
NoteAuthor   == "No author/artist metadata found."
NoteDevice   == "No device/make/model info found."
NoteDatetime == "No DateTimeOriginal found."

\* ' '.join of the truthy ones among make and model
JoinDevice(make, model) ==
    IF Truthy(make) /\ Truthy(model) THEN PyStr(make.v \o <<" ">> \o model.v)
    ELSE IF Truthy(make) THEN PyStr(make.v)
    ELSE PyStr(model.v)

\* highlights.get(k) is false: the key is missing or its value is falsy.
NotInHighlights(x) == x = Missing \/ ~Truthy(x)

\* Notes with the device warning before the author warning.
NotesDeviceFirst(gps, author, device, dt) ==
    (IF IsNone(gps) THEN <<NoteGps>> ELSE <<>>)
    \o (IF NotInHighlights(device) THEN <<NoteDevice>> ELSE <<>>)
    \o (IF NotInHighlights(author) THEN <<NoteAuthor>> ELSE <<>>)
    \o (IF NotInHighlights(dt) THEN <<NoteDatetime>> ELSE <<>>)

\* The notes list for the four highlights (lines 204-212).
Notes(gps, author, device, dt) ==
    (IF IsNone(gps) THEN <<NoteGps>> ELSE <<>>)
    \o (IF NotInHighlights(author) THEN <<NoteAuthor>> ELSE <<>>)
    \o (IF NotInHighlights(device) THEN <<NoteDevice>> ELSE <<>>)
    \o (IF NotInHighlights(dt) THEN <<NoteDatetime>> ELSE <<>>)

\* ResolveDatetime reading Exif.DateTimeOriginal before 0th.DateTime.
ResolveDatetimeExifFirst(flat, tree) ==
    IF Truthy(flat) THEN flat
    ELSE PyOr(TreeGet(tree, "Exif", "DateTimeOriginal"),
              TreeGet(tree, "0th", "DateTime"))

\* The datetime the highlights get (lines 180-189), falsy when none.
ResolveDatetime(flat, tree) ==
    IF Truthy(flat) THEN flat
    ELSE LET dt == PyOr(TreeGet(tree, "0th", "DateTime"),
                        TreeGet(tree, "Exif", "DateTimeOriginal"))
         IN  IF dt.t = "bytes" THEN PyStr(decode(dt.v)) ELSE dt

\* The highlights dict (lines 165-213); a key it does not get is Missing
\* (None for gps). join raises TypeError on a truthy non-text make or model.
Highlights(p, tree, size_human, width, height) ==
    LET make     == PyOr(p.make, TreeGet(tree, "0th", "Make"))
        model    == PyOr(p.model, TreeGet(tree, "0th", "Model"))
        artist   == PyOr(p.artist, TreeGet(tree, "0th", "Artist"))
        software == PyOr(p.software, TreeGet(tree, "0th", "Software"))
        dt       == ResolveDatetime(p.datetime_original, tree)
        device   == IF Truthy(make) \/ Truthy(model)
                    THEN JoinDevice(make, model) ELSE Missing
        author   == IF Truthy(artist) THEN artist ELSE Missing
        dto      == IF Truthy(dt) THEN dt ELSE Missing
    IN  IF (Truthy(make) /\ make.t # "str") \/ (Truthy(model) /\ model.t # "str")
        THEN [raised |-> TRUE]
        ELSE [raised            |-> FALSE,
              device            |-> device,
              author            |-> author,
              software          |-> IF Truthy(software) THEN software ELSE Missing,
              datetime_original |-> dto,
              gps               |-> p.gps,
              gps_decimal       |-> IF IsNone(p.gps) THEN None
                                    ELSE Some(<<Val(p.gps).lat, Val(p.gps).lon>>),
              dimensions        |-> IF ~IsNone(width) /\ ~IsNone(height)
                                       /\ Val(width) # 0 /\ Val(height) # 0
                                    THEN Some(<<Val(width), Val(height)>>)
                                    ELSE None,
              file_size         |-> size_human,
              notes             |-> Notes(p.gps, author, device, dto)]

\* extract_one without the try around parse_piexif (lines 159-162).
extract_one_unguarded(f) ==
    LET p  == IF f.flat.raised THEN NoParsed ELSE parse_exifread_tags(f.flat.tags)
        px == parse_piexif(f.load)
        h  == Highlights(p, px.tree, None, None, None)
    IN  IF px.raised \/ h.raised THEN [raised |-> TRUE]
        ELSE [raised |-> FALSE, size_bytes |-> None, size_human |-> None,
              width |-> None, height |-> None, format |-> None,
              pil_error |-> f.pil.raised, exifread |-> p,
              exifread_error |-> f.flat.raised, piexif |-> px.tree,
              piexif_error |-> FALSE, highlights |-> h]

\* f is what the file gives each reader: stat (raised or st_size), Image.open
\* (raised or format and size), exifread (raised or the tag mapping) and
\* piexif.load (raised or the tree).
extract_one(f) ==
    LET size_bytes == IF f.stat.raised THEN None ELSE Some(f.stat.size)
        size_human == IF f.stat.raised THEN None ELSE Some(human_size(f.stat.size))
        width      == IF f.pil.raised THEN None ELSE Some(f.pil.width)
        height     == IF f.pil.raised THEN None ELSE Some(f.pil.height)
        p          == IF f.flat.raised THEN NoParsed
                      ELSE parse_exifread_tags(f.flat.tags)
        px         == parse_piexif(f.load)
        h          == Highlights(p, px.tree, size_human, width, height)
    IN  IF h.raised THEN [raised |-> TRUE]
        ELSE [raised         |-> FALSE,
              size_bytes     |-> size_bytes,
              size_human     |-> size_human,
              width          |-> width,
              height         |-> height,
              format         |-> IF f.pil.raised THEN None ELSE Some(f.pil.format),
              pil_error      |-> f.pil.raised,
              exifread       |-> p,
              exifread_error |-> f.flat.raised,
              piexif         |-> px.tree,
              piexif_error   |-> px.raised,
              highlights     |-> h]

(* Inputs of extract_one. *)

FlatText(k) == Tag(AliasText(k), <<>>)
EmptyText == Tag(<<>>, <<>>)

\* Tag mappings the flat reader returns: every field absent or present,
\* artist and datetime (under their last alias, whose empty string reaches
\* the result) also present with an empty string, the sample coordinates
\* (N, W) or none.
ExtractMappings ==
    {[NoTags EXCEPT !["Image Make"] = mk, !["Image Model"] = md,
                    !["Artist"] = ar, !["Image Software"] = sw,
                    !["Image DateTime"] = dt,
                    !["GPS GPSLatitude"] = g[1],
                    !["GPS GPSLongitude"] = g[2],
                    !["GPS GPSLatitudeRef"] = g[3],
                    !["GPS GPSLongitudeRef"] = g[4]] :
        mk \in {Absent, FlatText("Image Make")},
        md \in {Absent, FlatText("Image Model")},
        ar \in {Absent, EmptyText, FlatText("Artist")},
        sw \in {Absent, FlatText("Image Software")},
        dt \in {Absent, EmptyText, FlatText("Image DateTime")},
        g \in {<<Absent, Absent, Absent, Absent>>,
               <<Tag(<<>>, SampleLat), Tag(<<>>, SampleLon),
                 Tag(<<"N">>, <<>>), Tag(<<"W">>, <<>>)>>}}

FlatOutcomes ==
    {[raised |-> TRUE, tags |-> NoTags]}
    \cup {[raised |-> FALSE, tags |-> m] : m \in ExtractMappings}

\* Trees piexif.load returns: the 0th and Exif groups with byte strings
\* (NUL-terminated, only NULs, invalid UTF-8) and numbers as values, and a
\* thumbnail entry that is no dict, or no thumbnail key.
Trees ==
    {[g \in GroupNames |->
        CASE g = "0th" ->
                 DictGroup([i \in TagIds |->
                     CASE i = 271 -> mk [] i = 315 -> ar [] i = 305 -> sw
                       [] i = 306 -> dt [] OTHER -> Missing])
          [] g = "Exif" ->
                 DictGroup([i \in TagIds |-> IF i = 36867 THEN dto ELSE Missing])
          [] OTHER -> th] :
        mk \in {Missing, PyBytes(<<"M", "NUL">>), PyInt(<<"5">>)},
        ar \in {Missing, PyBytes(<<"B", "NUL">>), PyBytes(<<"NUL">>)},
        sw \in {Missing, PyBytes(<<"S">>)},
        dt \in {Missing, PyBytes(<<"D">>), PyInt(<<"7">>)},
        dto \in {Missing, PyBytes(<<"xFF", "O">>)},
        th \in {NoGroup, NoneGroup}}

NoTree == [g \in GroupNames |-> NoGroup]

LoadOutcomes ==
    {[raised |-> TRUE, ex |-> NoTree], [raised |-> FALSE, ex |-> NoTree]}
    \cup {[raised |-> FALSE, ex |-> [NoTree EXCEPT !["thumbnail"] = BytesGroup]]}
    \cup {[raised |-> FALSE, ex |-> t] : t \in Trees}

StatOutcomes == {[raised |-> TRUE, size |-> 0], [raised |-> FALSE, size |-> 1536]}

PilOutcomes ==
    {[raised |-> TRUE, format |-> "", width |-> 0, height |-> 0],
     [raised |-> FALSE, format |-> "JPEG", width |-> 4, height |-> 3]}

Files == [stat : StatOutcomes, pil : PilOutcomes, flat : FlatOutcomes,
          load : LoadOutcomes]

InitExtract ==
    /\ pc = "start"
    /\ file \in Files
    /\ result = Unused
    /\ r = Unused /\ ratio = Unused /\ tags = Unused /\ parsed = Unused
    /\ args = Unused /\ images = Unused /\ idx = 0 /\ results = Unused
    /\ log = Unused

ExtractOne ==
    /\ pc = "start"
    /\ result' = extract_one(file)
    /\ pc' = "done"
    /\ UNCHANGED <<r, ratio, tags, parsed, file, args, images, idx, results,
                 log>>

NextExtract == ExtractOne

SpecExtract == InitExtract /\ [][NextExtract]_vars

----------------------------------------------------------------------------
(* Claims about extract_one. *)

Returned == pc = "done" /\ result # Unused /\ ~result.raised

\* The value the file's IFD tree holds for a 0th tag, as the structured
\* extractor presents it; Missing when the tree does not hold it.
TreeValue(id) ==
    IF ~file.load.raised /\ file.load.ex["0th"].kind = "dict"
       /\ file.load.ex["0th"].items[id] # Missing
    THEN CleanValue(file.load.ex["0th"].items[id]) ELSE Missing

\* Flat value first, the tree's value otherwise, absent only without both
\* (a value is supplied when it is not empty).
Precedence(flat, tree, h) ==
    /\ Truthy(flat) => h = flat
    /\ (~Truthy(flat) /\ tree # Missing /\ Truthy(tree)) => h = tree
    /\ h = Missing => (~Truthy(flat) /\ (tree = Missing \/ ~Truthy(tree)))

\* C4: author and software are the flat value when there is one, else the
\* 0th.Artist / 0th.Software value of the file's IFD tree.
C4_FlatThenStructured ==
    Returned =>
        /\ Precedence(result.exifread.artist, TreeValue(315),
                      result.highlights.author)
        /\ Precedence(result.exifread.software, TreeValue(305),
                      result.highlights.software)

\* C5: the notes are the warnings of the absent highlights among gps,
\* author, device and datetime_original, in that order.
C5_NotesMatchAbsentFields ==
    Returned =>
        LET h == result.highlights
        IN  h.notes =
                (IF IsNone(h.gps) THEN <<NoteGps>> ELSE <<>>)
                \o (IF h.author = Missing THEN <<NoteAuthor>> ELSE <<>>)
                \o (IF h.device = Missing THEN <<NoteDevice>> ELSE <<>>)
                \o (IF h.datetime_original = Missing THEN <<NoteDatetime>> ELSE <<>>)

\* A record with gps and device but neither author nor datetime.
C5_Witness ==
    /\ Returned
    /\ ~IsNone(result.highlights.gps)
    /\ result.highlights.device # Missing
    /\ result.highlights.notes = <<NoteAuthor, NoteDatetime>>

\* The file has no usable EXIF: the flat reader raises or finds no tag, the
\* structured reader raises or finds no tag in any group.
NoExif(f) ==
    /\ f.flat.raised \/ f.flat.tags = NoTags
    /\ \/ f.load.raised
       \/ \A g \in GroupNames : \A i \in TagIds : f.load.ex[g].items[i] = Missing

\* C6: a file without usable EXIF gives a record without device, author,
\* software, datetime_original and gps, with four notes, and no exception.
C6_DegradesToFourNotes ==
    (pc = "done" /\ NoExif(file)) =>
        /\ ~result.raised
        /\ result.highlights.device = Missing
        /\ result.highlights.author = Missing
        /\ result.highlights.software = Missing
        /\ result.highlights.datetime_original = Missing
        /\ IsNone(result.highlights.gps)
        /\ result.highlights.notes =
               <<NoteGps, NoteAuthor, NoteDevice, NoteDatetime>>

\* The flat reader raised, the image could not be opened and the loaded
\* tree holds nothing but a thumbnail entry of None.
C6_Witness ==
    /\ Returned
    /\ file.flat.raised /\ file.pil.raised /\ ~file.load.raised
    /\ file.load.ex["thumbnail"].kind = "none"
    /\ NoExif(file)
    /\ Len(result.highlights.notes) = 4

\* C9: parse_piexif raises nothing; a failed load gives the empty tree, a
\* successful one an entry for every group key of the tree, with every
\* bytes value as text without trailing NULs.
C9_ParsePiexifTotal ==
    Returned =>
        /\ ~result.piexif_error
        /\ file.load.raised => result.piexif = EmptyTree
        /\ ~file.load.raised =>
               \A g \in GroupNames :
                   /\ result.piexif[g].present <=> file.load.ex[g].kind # "absent"
                   /\ \A i \in TagIds :
                          LET val == file.load.ex[g].items[i]
                              got == result.piexif[g].items[PiexifName(g, i)]
                          IN  val # Missing =>
                                  IF val.t = "bytes"
                                  THEN /\ got.t = "str"
                                       /\ (got.v = <<>> \/ got.v[Len(got.v)] # "NUL")
                                  ELSE got = val

\* The three sources of the datetime highlight, in order.
DatetimeSources ==
    <<result.exifread.datetime_original,
      TreeGet(result.piexif, "0th", "DateTime"),
      TreeGet(result.piexif, "Exif", "DateTimeOriginal")>>

----------------------------------------------------------------------------
(* main *)

\* A readable image with make, model and the sample position, whose IFD
\* tree is the one piexif.load gives a file without structured tags.
GoodFile ==
    [stat |-> [raised |-> FALSE, size |-> 1536],
     pil  |-> [raised |-> FALSE, format |-> "JPEG", width |-> 4, height |-> 3],
     flat |-> [raised |-> FALSE,
               tags |-> [NoTags EXCEPT
                   !["Image Make"] = FlatText("Image Make"),
                   !["Image Model"] = FlatText("Image Model"),
                   !["GPS GPSLatitude"] = Tag(<<>>, SampleLat),
                   !["GPS GPSLongitude"] = Tag(<<>>, SampleLon),
                   !["GPS GPSLatitudeRef"] = Tag(<<"N">>, <<>>),
                   !["GPS GPSLongitudeRef"] = Tag(<<"W">>, <<>>)]],
     load |-> [raised |-> FALSE, ex |-> [NoTree EXCEPT !["thumbnail"] = NoneGroup]]]

\* A file no reader can decode.
CorruptFile ==
    [stat |-> [raised |-> FALSE, size |-> 0],
     pil  |-> [raised |-> TRUE, format |-> "", width |-> 0, height |-> 0],
     flat |-> [raised |-> TRUE, tags |-> NoTags],
     load |-> [raised |-> TRUE, ex |-> NoTree]]

MainFiles == {GoodFile, CorruptFile}

\* extract_one on the files main is given.
Extracted == [f \in MainFiles |-> extract_one(f)]

\* A path of the command line: whether it exists and what it holds.
Paths ==
    {[exists |-> FALSE, file |-> CorruptFile]}
    \cup {[exists |-> TRUE, file |-> f] : f \in MainFiles}

ImageLists == UNION {[1..n -> Paths] : n \in 1..MaxImages}

InitMain ==
    /\ pc = "loop"
    /\ args \in [json : BOOLEAN, csv : BOOLEAN]
    /\ images \in ImageLists
    /\ idx = 1
    /\ results = <<>>
    /\ log = <<>>
    /\ r = Unused /\ ratio = Unused /\ tags = Unused /\ parsed = Unused
    /\ file = Unused /\ result = Unused

\* Lines 257-259: the path does not exist; report it and continue.
NotFound ==
    /\ pc = "loop" /\ idx <= Len(images)
    /\ ~images[idx].exists
    /\ log' = Append(log, <<"Not found", idx>>)
    /\ idx' = idx + 1
    /\ UNCHANGED <<pc, r, ratio, tags, parsed, file, result, args, images,
                   results>>

\* ProcessImage without the try around the sidecar write (lines 265-270).
ProcessImageJsonUnguarded ==
    /\ pc = "loop" /\ idx <= Len(images)
    /\ images[idx].exists
    /\ LET res == Extracted[images[idx].file]
       IN  \/ /\ pc' = pc
              /\ results' = Append(results, [image |-> idx, res |-> res])
              /\ idx' = idx + 1
              /\ log' = Append(log, <<"Summary", idx>>)
           \/ /\ args.json
              /\ pc' = "crashed"
              /\ results' = Append(results, [image |-> idx, res |-> res])
              /\ log' = Append(log, <<"Summary", idx>>)
              /\ UNCHANGED idx
    /\ UNCHANGED <<r, ratio, tags, parsed, file, result, args, images>>

\* Lines 260-270: extract, append, print the summary, and with --json write
\* the sidecar, a failure of which is reported and nothing more. An
\* exception of extract_one is caught nowhere and ends main.
ProcessImage ==
    /\ pc = "loop" /\ idx <= Len(images)
    /\ images[idx].exists
    /\ LET res == Extracted[images[idx].file]
       IN  IF res.raised
           THEN /\ pc' = "crashed"
                /\ UNCHANGED <<idx, results, log>>
           ELSE /\ pc' = pc
                /\ results' = Append(results, [image |-> idx, res |-> res])
                /\ idx' = idx + 1
                /\ \/ /\ ~args.json
                      /\ log' = Append(log, <<"Summary", idx>>)
                   \/ /\ args.json
                      /\ log' = log \o <<(<<"Summary", idx>>),
                                          (<<"Wrote JSON sidecar", idx>>)>>
                   \/ /\ args.json
                      /\ log' = log \o <<(<<"Summary", idx>>),
                                          (<<"Failed to write JSON", idx>>)>>
    /\ UNCHANGED <<r, ratio, tags, parsed, file, result, args, images>>

\* Lines 272-297: after the loop, with --csv and at least one result, write
\* the CSV; a failure is reported.
WriteCsv ==
    /\ pc = "loop" /\ idx > Len(images)
    /\ pc' = "done"
    /\ \/ /\ ~(args.csv /\ results # <<>>)
          /\ log' = log
       \/ /\ args.csv /\ results # <<>>
          /\ log' = Append(log, <<"Wrote CSV summary", Len(results)>>)
       \/ /\ args.csv /\ results # <<>>
          /\ log' = Append(log, <<"Failed to write CSV", 0>>)
    /\ UNCHANGED <<r, ratio, tags, parsed, file, result, args, images, idx,
                   results>>

NextMain == NotFound \/ ProcessImage \/ WriteCsv

\* main runs to its end: it is one thread that nothing suspends.
Spec == InitMain /\ [][NextMain]_vars /\ WF_vars(NextMain)

----------------------------------------------------------------------------
(* Claims about main. *)

\* What results holds once the first n paths are handled: the record of
\* every existing one, in input order.
RECURSIVE ExpectedResults(_)
ExpectedResults(n) ==
    IF n = 0 THEN <<>>
    ELSE IF images[n].exists
         THEN Append(ExpectedResults(n - 1),
                     [image |-> n, res |-> Extracted[images[n].file]])
         ELSE ExpectedResults(n - 1)

Logged(entry) == \E k \in 1..Len(log) : log[k] = entry

\* Every path before idx is handled: extracted once and appended in input
\* order when it exists, reported when it does not; nothing ends the run.
HandledInOrder ==
    /\ pc \in {"loop", "done"}
    /\ idx \in 1..(Len(images) + 1)
    /\ results = ExpectedResults(idx - 1)
    /\ \A k \in 1..Len(images) :
           /\ Logged(<<"Not found", k>>) <=> (k < idx /\ ~images[k].exists)
           /\ Logged(<<"Summary", k>>) <=> (k < idx /\ images[k].exists)
    /\ pc = "done" => idx = Len(images) + 1

\* A step never removes or changes a result already appended.
KeepsResults ==
    /\ Len(results') >= Len(results)
    /\ SubSeq(results', 1, Len(results)) = results
    /\ idx' >= idx

\* C7: whatever fails per file, main handles every path in input order and
\* terminates, keeping every computed result.
C7_RunContinues ==
    /\ []HandledInOrder
    /\ [][KeepsResults]_vars
    /\ <>(pc = "done")

\* A finished run over a missing path, then an image whose sidecar could
\* not be written, then a corrupt file, whose CSV could not be written.
C7_Witness ==
    /\ pc = "done"
    /\ Len(images) = 3
    /\ ~images[1].exists
    /\ images[3] = [exists |-> TRUE, file |-> CorruptFile]
    /\ Logged(<<"Failed to write JSON", 2>>)
    /\ Logged(<<"Failed to write CSV", 0>>)
    /\ Len(results) = 2
    /\ results[2].image = 3

====
